---- MODULE Spec2Model ----
(***************************************************************************)
(* Model of the Monkey parser (src/src/parser/mod.rs).                     *)
(*                                                                         *)
(* The parser is a Peekable token iterator walked by a recursive-descent   *)
(* statement parser and a Pratt expression parser.  The iterator is the    *)
(* record [toks, pos] (the token sequence and the index of the token a     *)
(* peek returns), every parse function is an operator from the iterator    *)
(* to a Result and the iterator it leaves behind, and parse_program's      *)
(* loop is the state machine: one action per arm of its loop body.  The    *)
(* parse functions call one another through the operator call, which       *)
(* names the callee and holds the only recursion of the module.            *)
(*                                                                         *)
(* Two history fields ride along in the iterator record and are never read *)
(* by the parser: semis records which code site consumed each statement    *)
(* terminator, and stuck records a loop iteration that consumed no token   *)
(* (where the code would spin, the model cuts the loop and sets stuck).    *)
(***************************************************************************)
EXTENDS Integers, Sequences, FiniteSets, TLC

VARIABLES iter, program, errors, pc, result

vars == <<iter, program, errors, pc, result>>

(* ------------------------------ bounds -------------------------------- *)

MaxLen == 3

MaxOps == 3

MaxStmts == 3

(* ------------------------------ tokens -------------------------------- *)

\* Token::Identifier(id): the identifier texts the inputs use.
Identifiers == {"a", "b", "c", "d", "e"}

\* Token::Int(text): texts i64 can hold, and one it cannot (i64::MAX + 1).
GoodInts == {"1", "2"}

BadInts == {"9223372036854775808"}

Ints == GoodInts \cup BadInts

InfixTokens == {"Plus", "Minus", "Asterisk", "Slash", "Lt", "Gt", "Eq", "Noteq"}

FixedTokens ==
    InfixTokens \cup
    {"Let", "Return", "Semicolon", "Assign", "Bang", "Lparen", "Rparen",
     "Lbrace", "Rbrace", "Comma", "If", "Else", "Function", "True", "False"}

Tokens == FixedTokens \cup Identifiers \cup Ints

\* What Peekable::peek and Iterator::next give at the end of the input.
None == "None"

(* ---------------------------- precedence ------------------------------ *)

Lowest == 1

Equals == 2

LessGreater == 3

Sum == 4

Product == 5

Prefix == 6

Call == 7

get_precedence(token) ==
    CASE token \in {"Eq", "Noteq"} -> Equals
      [] token \in {"Lt", "Gt"} -> LessGreater
      [] token \in {"Plus", "Minus"} -> Sum
      [] token \in {"Asterisk", "Slash"} -> Product
      [] token = "Lparen" -> Call
      [] OTHER -> Lowest

(* -------------------------------- AST --------------------------------- *)

ExprIdentifier(id) == [node |-> "Identifier", name |-> id]

ExprInteger(n) == [node |-> "Integer", value |-> n]

ExprBoolean(b) == [node |-> "Boolean", value |-> b]

ExprPrefix(op, right) == [node |-> "Prefix", op |-> op, right |-> right]

ExprInfix(left, op, right) ==
    [node |-> "Infix", left |-> left, op |-> op, right |-> right]

\* alternative is an Option: <<>> is None, <<block>> is Some(block).
ExprIf(condition, consequence, alternative) ==
    [node |-> "If", condition |-> condition, consequence |-> consequence,
     alternative |-> alternative]

ExprFunction(parameters, body) ==
    [node |-> "Function", parameters |-> parameters, body |-> body]

ExprCall(callee, arguments) ==
    [node |-> "Call", callee |-> callee, arguments |-> arguments]

StmtLet(identifier, expression) ==
    [node |-> "Let", identifier |-> identifier, expression |-> expression]

StmtReturn(expression) == [node |-> "Return", expression |-> expression]

StmtExpression(expression) == [node |-> "Expression", expression |-> expression]

BlockStatement(block) == [node |-> "BlockStatement", statements |-> block]

(* ------------------------------ errors -------------------------------- *)

UnexpectedToken(token) == [err |-> "UnexpectedToken", arg |-> token]

UnexpectedEof == [err |-> "UnexpectedEof", arg |-> ""]

UnexpectedSemicolon == [err |-> "UnexpectedSemicolon", arg |-> ""]

InvalidPrefixOperator(token) == [err |-> "InvalidPrefixOperator", arg |-> token]

InvalidInteger(text) == [err |-> "InvalidInteger", arg |-> text]

Generic == [err |-> "Generic", arg |-> "should never get here... fix types"]

\* Result<T, ParsingError> together with the iterator the call leaves behind.
Ok(v, p) == [ok |-> TRUE, val |-> v, p |-> p]

Err(e, p) == [ok |-> FALSE, val |-> e, p |-> p]

(* ----------------------------- iterator ------------------------------- *)

NewParser(toks) == [toks |-> toks, pos |-> 1, semis |-> {}, stuck |-> FALSE]

Peek(p) == IF p.pos <= Len(p.toks) THEN p.toks[p.pos] ELSE None

\* self.iter.next() at the code site `by`.
Advance(p, by) ==
    IF Peek(p) = None THEN p
    ELSE [p EXCEPT !.pos = @ + 1,
                   !.semis = IF Peek(p) = "Semicolon"
                             THEN @ \cup {[at |-> p.pos, by |-> by]}
                             ELSE @]

\* A loop iteration that went from iterator p to iterator q without consuming.
Stuck(q) == [q EXCEPT !.stuck = TRUE]

next_token_or_end(p) ==
    IF Peek(p) = "Semicolon" THEN Err(UnexpectedSemicolon, p)
    ELSE IF Peek(p) # None THEN Ok(Peek(p), Advance(p, "next_token_or_end"))
    ELSE Err(UnexpectedEof, p)

\* skip_step forgetting to consume.
skip_step_none(p) == p

skip_step(p) == Advance(p, "skip_to_semicolon")

\* skip_to_semicolon consuming the terminator it stops at.
RECURSIVE skip_past_semicolon(_)
skip_past_semicolon(p) ==
    IF Peek(p) = None THEN p
    ELSE IF Peek(p) = "Semicolon" THEN Advance(p, "skip_to_semicolon")
    ELSE skip_past_semicolon(Advance(p, "skip_to_semicolon"))

RECURSIVE skip_to_semicolon(_)
skip_to_semicolon(p) ==
    IF Peek(p) # None /\ Peek(p) # "Semicolon"
    THEN LET q == skip_step(p)
         IN  IF q.pos > p.pos THEN skip_to_semicolon(q) ELSE Stuck(q)
    ELSE p

(* ------------------------- expression leaves -------------------------- *)

parse_identifier(id, p) == Ok(ExprIdentifier(id), p)

\* str::parse::<i64>: the value of the digits, or an error on overflow.
IntValue(text) ==
    CASE text = "1" -> 1
      [] text = "2" -> 2

parse_integer(int, p) ==
    IF int \in GoodInts THEN Ok(ExprInteger(IntValue(int)), p)
    ELSE Err(InvalidInteger(int), p)

parse_boolean(val, p) == Ok(ExprBoolean(val), p)

PrefixOf(token) == IF token = "Bang" THEN "Bang" ELSE "Minus"

InfixOf(operator) ==
    CASE operator = "Plus" -> "Plus"
      [] operator = "Minus" -> "Minus"
      [] operator = "Asterisk" -> "Multiply"
      [] operator = "Slash" -> "Divide"
      [] operator = "Lt" -> "LessThan"
      [] operator = "Gt" -> "GreaterThan"
      [] operator = "Eq" -> "Equal"
      [] operator = "Noteq" -> "NotEqual"

(* ------------------------- statements, blocks ------------------------- *)

RECURSIVE call(_, _)

\* The tail of parse_let and parse_return: the token after the expression.
expect_semicolon(statement, p) ==
    IF Peek(p) = "Semicolon" THEN Ok(statement, p)
    ELSE IF Peek(p) # None THEN Err(UnexpectedToken(Peek(p)), p)
    ELSE Err(UnexpectedEof, p)

parse_statement(p, token) ==
    LET p1 == Advance(p, "parse_statement")
    IN  IF token = "Let"
        THEN LET r == call("parse_let", <<p1>>) IN [r EXCEPT !.p = skip_to_semicolon(r.p)]
        ELSE IF token = "Return"
        THEN LET r == call("parse_return", <<p1>>) IN [r EXCEPT !.p = skip_to_semicolon(r.p)]
        ELSE LET r == call("parse_expression_statement", <<p1, token>>)
             IN  IF r.ok THEN r ELSE [r EXCEPT !.p = skip_to_semicolon(r.p)]

parse_let(p) ==
    LET r1 == next_token_or_end(p)
    IN  IF ~r1.ok THEN r1
        ELSE IF r1.val \notin Identifiers THEN Err(UnexpectedToken(r1.val), r1.p)
        ELSE
        LET identifier == ExprIdentifier(r1.val)
            r2 == next_token_or_end(r1.p)
        IN  IF ~r2.ok THEN r2
            ELSE IF r2.val # "Assign" THEN Err(UnexpectedToken(r2.val), r2.p)
            ELSE
            LET r3 == next_token_or_end(r2.p)
            IN  IF ~r3.ok THEN r3
                ELSE
                LET r4 == call("parse_expression", <<r3.p, r3.val, Lowest>>)
                IN  IF ~r4.ok THEN r4
                    ELSE expect_semicolon(StmtLet(identifier, r4.val), r4.p)

parse_return(p) ==
    LET r1 == next_token_or_end(p)
    IN  IF ~r1.ok THEN r1
        ELSE
        LET r2 == call("parse_expression", <<r1.p, r1.val, Lowest>>)
        IN  IF ~r2.ok THEN r2
            ELSE expect_semicolon(StmtReturn(r2.val), r2.p)

parse_expression_statement(p, token) ==
    LET r == call("parse_expression", <<p, token, Lowest>>)
    IN  IF ~r.ok THEN r ELSE Ok(StmtExpression(r.val), r.p)

\* parse_block_statement closing a block itself when the input ends inside it.
parse_block_statement_lenient(p) ==
    LET r == next_token_or_end(p)
    IN  IF ~r.ok THEN r
        ELSE IF r.val # "Lbrace" THEN Err(UnexpectedToken(r.val), r.p)
        ELSE
        LET b == call("block_loop", <<r.p, <<>>>>)
        IN  IF ~b.ok
            THEN IF Peek(b.p) = None /\ b.val = UnexpectedEof
                 THEN Ok(BlockStatement(<<>>), b.p)
                 ELSE b
            ELSE
            LET c == next_token_or_end(b.p)
            IN  IF ~c.ok THEN c
                ELSE IF c.val # "Rbrace" THEN Err(UnexpectedToken(c.val), c.p)
                ELSE Ok(BlockStatement(b.val), c.p)

parse_block_statement(p) ==
    LET r == next_token_or_end(p)
    IN  IF ~r.ok THEN r
        ELSE IF r.val # "Lbrace" THEN Err(UnexpectedToken(r.val), r.p)
        ELSE
        LET b == call("block_loop", <<r.p, <<>>>>)
        IN  IF ~b.ok THEN b
            ELSE
            LET c == next_token_or_end(b.p)
            IN  IF ~c.ok THEN c
                ELSE IF c.val # "Rbrace" THEN Err(UnexpectedToken(c.val), c.p)
                ELSE Ok(BlockStatement(b.val), c.p)

\* The loop of parse_block_statement; Ok(block) when it breaks at '}'.
block_loop(p, block) ==
    IF Peek(p) = "Semicolon"
    THEN LET q == Advance(p, "parse_block_statement")
         IN  IF q.pos > p.pos THEN call("block_loop", <<q, block>>) ELSE Ok(block, Stuck(q))
    ELSE IF Peek(p) = None THEN Err(UnexpectedEof, p)
    ELSE IF Peek(p) = "Rbrace" THEN Ok(block, p)
    ELSE LET r == call("parse_statement", <<p, Peek(p)>>)
         IN  IF ~r.ok THEN r
             ELSE IF r.p.pos > p.pos THEN call("block_loop", <<r.p, Append(block, r.val)>>)
             ELSE Ok(block, Stuck(r.p))

(* ---------------------------- expressions ----------------------------- *)

\* The test of the infix loop with <= for <.
climbs_le(precedence, right) == precedence <= get_precedence(right)

\* The test of the infix loop (line 211).
climbs(precedence, right) == precedence < get_precedence(right)

\* The Infix arm also taking the call parenthesis.
infix_arm_wide(right) == right \in InfixTokens \cup {"Lparen"}

\* The arm of the infix loop's match that builds an Infix node (215-222).
infix_arm(right) == right \in InfixTokens

parse_expression(p, token, precedence) ==
    LET left ==
          CASE token \in Identifiers -> parse_identifier(token, p)
            [] token \in Ints -> parse_integer(token, p)
            [] token \in {"Bang", "Minus"} -> call("parse_prefix_expression", <<p, token>>)
            [] token = "True" -> parse_boolean(TRUE, p)
            [] token = "False" -> parse_boolean(FALSE, p)
            [] token = "Lparen" -> call("parse_grouped_expression", <<p>>)
            [] token = "If" -> call("parse_if_expression", <<p>>)
            [] token = "Function" -> call("parse_function_literal", <<p>>)
            [] OTHER -> Err(InvalidPrefixOperator(token), p)
    IN  IF ~left.ok THEN left ELSE call("infix_loop", <<left.p, left.val, precedence>>)

\* The loop of parse_expression (205-229).
infix_loop(p, left_expression, precedence) ==
    LET right == Peek(p)
    IN  IF right = "Semicolon" \/ right = None THEN Ok(left_expression, p)
        ELSE IF ~climbs(precedence, right) THEN Ok(left_expression, p)
        ELSE
        LET o == next_token_or_end(p)
        IN  IF ~o.ok THEN o
            ELSE
            LET operator == o.val
                e == IF infix_arm(right)
                     THEN call("parse_infix_expression", <<o.p, left_expression, operator>>)
                     ELSE call("parse_call_expression", <<o.p, left_expression>>)
            IN  IF ~infix_arm(right) /\ right # "Lparen"
                THEN Ok(left_expression, o.p)
                ELSE IF ~e.ok THEN e
                ELSE IF e.p.pos > p.pos THEN call("infix_loop", <<e.p, e.val, precedence>>)
                ELSE Ok(e.val, Stuck(e.p))

parse_grouped_expression(p) ==
    LET n == next_token_or_end(p)
    IN  IF ~n.ok THEN n
        ELSE
        LET e == call("parse_expression", <<n.p, n.val, Lowest>>)
        IN  IF ~e.ok THEN e
            ELSE IF Peek(e.p) # None
            THEN IF Peek(e.p) # "Rparen"
                 THEN Err(UnexpectedToken(Peek(e.p)), e.p)
                 ELSE LET c == next_token_or_end(e.p)
                      IN  IF ~c.ok THEN c ELSE Ok(e.val, c.p)
            ELSE Ok(e.val, e.p)

parse_if_expression(p) ==
    LET t == next_token_or_end(p)
    IN  IF ~t.ok THEN t
        ELSE IF t.val # "Lparen" THEN Err(UnexpectedToken(t.val), t.p)
        ELSE
        LET condition == call("parse_expression", <<t.p, "Lparen", Lowest>>)
        IN  IF ~condition.ok THEN condition
            ELSE
            LET consequence == call("parse_block_statement", <<condition.p>>)
            IN  IF ~consequence.ok THEN consequence
                ELSE IF Peek(consequence.p) = "Else"
                THEN LET e == next_token_or_end(consequence.p)
                     IN  IF ~e.ok THEN e
                         ELSE
                         LET alternative == call("parse_block_statement", <<e.p>>)
                         IN  IF ~alternative.ok THEN alternative
                             ELSE Ok(ExprIf(condition.val, consequence.val,
                                            <<alternative.val>>), alternative.p)
                ELSE Ok(ExprIf(condition.val, consequence.val, <<>>),
                        consequence.p)

parse_function_literal(p) ==
    LET parameters == call("parse_function_parameters", <<p>>)
    IN  IF ~parameters.ok THEN parameters
        ELSE
        LET body == call("parse_block_statement", <<parameters.p>>)
        IN  IF ~body.ok THEN body
            ELSE Ok(ExprFunction(parameters.val, body.val), body.p)

parse_function_parameters(p) ==
    LET r == next_token_or_end(p)
    IN  IF ~r.ok THEN r
        ELSE IF r.val # "Lparen" THEN Err(UnexpectedToken(r.val), r.p)
        ELSE call("parameters_loop", <<r.p, <<>>>>)

\* The loop of parse_function_parameters (308-325).
parameters_loop(p, parameters) ==
    LET r == next_token_or_end(p)
    IN  IF ~r.ok THEN r
        ELSE IF r.val \notin Identifiers THEN Err(UnexpectedToken(r.val), r.p)
        ELSE
        LET pushed == Append(parameters, ExprIdentifier(r.val))
            next == Peek(r.p)
        IN  IF next = "Comma"
            THEN LET c == next_token_or_end(r.p)
                 IN  IF ~c.ok THEN c
                     ELSE IF c.p.pos > p.pos THEN call("parameters_loop", <<c.p, pushed>>)
                     ELSE Ok(pushed, Stuck(c.p))
            ELSE IF next = "Rparen"
            THEN LET c == next_token_or_end(r.p)
                 IN  IF ~c.ok THEN c ELSE Ok(pushed, c.p)
            ELSE IF next # None THEN Err(UnexpectedToken(next), r.p)
            ELSE Err(UnexpectedEof, r.p)

parse_prefix_expression(p, token) ==
    IF token \notin {"Bang", "Minus"} THEN Err(Generic, p)
    ELSE
    LET n == next_token_or_end(p)
    IN  IF ~n.ok THEN n
        ELSE
        LET right_expression == call("parse_expression", <<n.p, n.val, Prefix>>)
        IN  IF ~right_expression.ok THEN right_expression
            ELSE Ok(ExprPrefix(PrefixOf(token), right_expression.val),
                    right_expression.p)

parse_infix_expression(p, left_expression, operator) ==
    IF operator \notin InfixTokens THEN Err(Generic, p)
    ELSE
    LET precedence == get_precedence(operator)
        n == next_token_or_end(p)
    IN  IF ~n.ok THEN n
        ELSE
        LET right_expression == call("parse_expression", <<n.p, n.val, precedence>>)
        IN  IF ~right_expression.ok THEN right_expression
            ELSE Ok(ExprInfix(left_expression, InfixOf(operator),
                              right_expression.val), right_expression.p)

parse_call_expression(p, left_expression) ==
    IF Peek(p) = "Rparen"
    THEN LET c == next_token_or_end(p)
         IN  IF ~c.ok THEN c ELSE Ok(ExprCall(left_expression, <<>>), c.p)
    ELSE
    LET n == next_token_or_end(p)
    IN  IF ~n.ok THEN n
        ELSE
        LET first == call("parse_expression", <<n.p, n.val, Lowest>>)
        IN  IF ~first.ok THEN first
            ELSE
            LET arguments == call("arguments_loop", <<first.p, <<first.val>>>>)
            IN  IF ~arguments.ok THEN arguments
                ELSE
                LET c == next_token_or_end(arguments.p)
                IN  IF ~c.ok THEN c
                    ELSE IF c.val # "Rparen"
                    THEN Err(UnexpectedToken(c.val), c.p)
                    ELSE Ok(ExprCall(left_expression, arguments.val), c.p)

\* The loop of parse_call_expression (397-405).
arguments_loop(p, arguments) ==
    IF Peek(p) = "Comma"
    THEN LET c == next_token_or_end(p)
         IN  IF ~c.ok THEN c
             ELSE
             LET n == next_token_or_end(c.p)
             IN  IF ~n.ok THEN n
                 ELSE
                 LET a == call("parse_expression", <<n.p, n.val, Lowest>>)
                 IN  IF ~a.ok THEN a
                     ELSE IF a.p.pos > p.pos
                     THEN call("arguments_loop", <<a.p, Append(arguments, a.val)>>)
                     ELSE Ok(arguments, Stuck(a.p))
    ELSE Ok(arguments, p)

\* One parse function calling another: the call named f with arguments a.
call(f, a) ==
    CASE f = "parse_statement" -> parse_statement(a[1], a[2])
      [] f = "parse_let" -> parse_let(a[1])
      [] f = "parse_return" -> parse_return(a[1])
      [] f = "parse_expression_statement" -> parse_expression_statement(a[1], a[2])
      [] f = "parse_block_statement" -> parse_block_statement(a[1])
      [] f = "block_loop" -> block_loop(a[1], a[2])
      [] f = "parse_expression" -> parse_expression(a[1], a[2], a[3])
      [] f = "infix_loop" -> infix_loop(a[1], a[2], a[3])
      [] f = "parse_grouped_expression" -> parse_grouped_expression(a[1])
      [] f = "parse_if_expression" -> parse_if_expression(a[1])
      [] f = "parse_function_literal" -> parse_function_literal(a[1])
      [] f = "parse_function_parameters" -> parse_function_parameters(a[1])
      [] f = "parameters_loop" -> parameters_loop(a[1], a[2])
      [] f = "parse_prefix_expression" -> parse_prefix_expression(a[1], a[2])
      [] f = "parse_infix_expression" -> parse_infix_expression(a[1], a[2], a[3])
      [] f = "parse_call_expression" -> parse_call_expression(a[1], a[2])
      [] f = "arguments_loop" -> arguments_loop(a[1], a[2])

(* ------------------------------- inputs ------------------------------- *)

\* The sequences over S of length at most n.
SeqsUpTo(S, n) == UNION {[1..m -> S] : m \in 0..n}

\* Every token kind, with two identifiers and a good and a bad integer text.
ShortAlphabet == FixedTokens \cup {"a", "b", "1", "9223372036854775808"}

ShortInputs == SeqsUpTo(ShortAlphabet, MaxLen)

RECURSIVE Concat(_)
Concat(ss) == IF ss = <<>> THEN <<>> ELSE Head(ss) \o Concat(Tail(ss))

\* Chains of operands joined by infix operators: a op b op c ..., at most one
\* operand of which carries a prefix operator or call parentheses.
ChainOperands == <<"a", "b", "c", "d", "e">>

OperandForms == {"neg", "not", "notneg", "call0", "call1", "negcall"}

OperandTokens(x, form) ==
    CASE form = "plain" -> <<x>>
      [] form = "neg" -> <<"Minus", x>>
      [] form = "not" -> <<"Bang", x>>
      [] form = "notneg" -> <<"Bang", "Minus", x>>
      [] form = "call0" -> <<x, "Lparen", "Rparen">>
      [] form = "call1" -> <<x, "Lparen", "1", "Plus", "2", "Rparen">>
      [] form = "negcall" -> <<"Minus", x, "Lparen", "Rparen">>

OpSeqs(n) == UNION {[1..m -> InfixTokens] : m \in 0..n}

ChainSpecs ==
    {[ops |-> o, k |-> 1, form |-> "plain"] : o \in OpSeqs(MaxOps)}
    \cup {[ops |-> o, k |-> k, form |-> f] :
            o \in OpSeqs(MaxOps - 1), k \in 1..MaxOps, f \in OperandForms}

ChainForm(c, i) == IF i = c.k THEN c.form ELSE "plain"

ChainOk(c) == c.k <= Len(c.ops) + 1

ChainTokensOf(c) ==
    Concat([i \in 1..(2 * Len(c.ops) + 1) |->
              IF i % 2 = 1
              THEN OperandTokens(ChainOperands[(i + 1) \div 2], ChainForm(c, (i + 1) \div 2))
              ELSE <<c.ops[i \div 2]>>])

ChainInputs == {ChainTokensOf(c) : c \in {d \in ChainSpecs : ChainOk(d)}}

\* Statements, each followed by a terminator: some well-formed, some malformed,
\* two of the malformed ones inside a block that holds terminators.
Catalog ==
    << [toks |-> <<"a">>, malformed |-> FALSE],
       [toks |-> <<"Let", "a", "Assign", "1">>, malformed |-> FALSE],
       [toks |-> <<"Return", "a", "Plus", "b">>, malformed |-> FALSE],
       [toks |-> <<"If", "Lparen", "a", "Rparen", "Lbrace", "b", "Semicolon", "Rbrace">>,
        malformed |-> FALSE],
       [toks |-> <<"Let", "a", "1">>, malformed |-> TRUE],
       [toks |-> <<"Return">>, malformed |-> TRUE],
       [toks |-> <<"Rparen">>, malformed |-> TRUE],
       [toks |-> <<"a", "Plus">>, malformed |-> TRUE],
       [toks |-> <<"Function", "Lparen", "a", "Rparen", "Lbrace", "Let", "b", "1",
                   "Semicolon", "c", "Rbrace">>, malformed |-> TRUE],
       [toks |-> <<"If", "Lparen", "a", "Rparen", "Lbrace", "Rparen", "Semicolon",
                   "b", "Rbrace">>, malformed |-> TRUE] >>

CatalogSpecs == UNION {[1..n -> DOMAIN Catalog] : n \in 1..MaxStmts}

CatalogTokensOf(c) ==
    Concat([i \in 1..Len(c) |-> Append(Catalog[c[i]].toks, "Semicolon")])

CatalogInputs == {CatalogTokensOf(c) : c \in CatalogSpecs}

\* Function literals: fn ( params ) body.
ParamAlphabet == {"a", "b", "Comma", "1"}

MaxParams == 3

FnBodies ==
    {<<"Lbrace", "Rbrace">>, <<"Lbrace", "a", "Rbrace">>, <<>>, <<"a">>,
     <<"Lbrace", "a">>}

FnSpecs ==
    {[params |-> ps, body |-> b] : ps \in SeqsUpTo(ParamAlphabet, MaxParams), b \in FnBodies}

FnTokensOf(c) == <<"Function", "Lparen">> \o c.params \o <<"Rparen">> \o c.body

FnInputs == {FnTokensOf(c) : c \in FnSpecs}

\* Groupings: ( chain tail.
GroupChains == {<<"a">>, <<"a", "Plus", "b">>, <<"a", "Asterisk", "b">>}

\* Tokens that neither close the grouping nor continue the inner expression.
NotContinuing == Tokens \ (InfixTokens \cup {"Lparen", "Rparen"})

GroupTails ==
    {<<>>, <<"Rparen">>} \cup {<<t>> : t \in NotContinuing}
    \cup {<<"Rparen", op, "c">> : op \in InfixTokens}

GroupSpecs == {[chain |-> ch, tail |-> t] : ch \in GroupChains, t \in GroupTails}

GroupTokensOf(c) == <<"Lparen">> \o c.chain \o c.tail

GroupInputs == {GroupTokensOf(c) : c \in GroupSpecs}

\* Blocks the input ends inside of: statements, an opener, well-formed
\* statements of the block, and no closing brace.
BlockOpeners ==
    {<<"If", "Lparen", "a", "Rparen", "Lbrace">>,
     <<"Function", "Lparen", "a", "Rparen", "Lbrace">>,
     <<"Let", "b", "Assign", "Function", "Lparen", "a", "Rparen", "Lbrace">>,
     <<"Return", "If", "Lparen", "a", "Rparen", "Lbrace", "b", "Rbrace", "Else", "Lbrace">>,
     <<"Function", "Lparen", "a", "Rparen", "Lbrace", "If", "Lparen", "a", "Rparen", "Lbrace">>}

BlockBodies ==
    {<<>>, <<"b">>, <<"b", "Semicolon">>, <<"Semicolon">>,
     <<"Let", "c", "Assign", "1", "Semicolon">>,
     <<"b", "Semicolon", "Return", "c", "Semicolon">>,
     <<"b", "Semicolon", "c", "Plus", "1">>}

BlockPrefixes == {<<>>, <<"a", "Semicolon">>, <<"Let", "a", "Assign", "1", "Semicolon", "b">>}

UnterminatedSpecs ==
    {[prefix |-> pre, opener |-> o, body |-> b] :
        pre \in BlockPrefixes, o \in BlockOpeners, b \in BlockBodies}

UnterminatedTokensOf(c) == c.prefix \o c.opener \o c.body

UnterminatedInputs == {UnterminatedTokensOf(c) : c \in UnterminatedSpecs}

Inputs ==
    ShortInputs \cup ChainInputs \cup CatalogInputs \cup FnInputs
    \cup GroupInputs \cup UnterminatedInputs

(* ---------------------------- parse_program --------------------------- *)

\* The end of parse_program tolerating one error.
parse_program_result_gt1(prog, errs) ==
    IF Len(errs) > 1 THEN [tag |-> "Err", val |-> errs]
    ELSE [tag |-> "Ok", val |-> prog]

\* The end of parse_program (42-46).
parse_program_result(prog, errs) ==
    IF Len(errs) > 0 THEN [tag |-> "Err", val |-> errs]
    ELSE [tag |-> "Ok", val |-> prog]

NoResult == [tag |-> "Running", val |-> <<>>]

Init ==
    /\ iter \in {NewParser(toks) : toks \in Inputs}
    /\ program = <<>>
    /\ errors = <<>>
    /\ pc = "loop"
    /\ result = NoResult

\* Some(Token::Semicolon): consume it and continue.
SkipSemicolon ==
    /\ pc = "loop"
    /\ Peek(iter) = "Semicolon"
    /\ iter' = Advance(iter, "parse_program")
    /\ UNCHANGED <<program, errors, pc, result>>

\* Some(tok), and parse_statement returns Ok(statement).
StatementOk ==
    /\ pc = "loop"
    /\ Peek(iter) \notin {"Semicolon", None}
    /\ LET r == call("parse_statement", <<iter, Peek(iter)>>)
       IN  /\ r.ok
           /\ program' = Append(program, r.val)
           /\ iter' = r.p
    /\ UNCHANGED <<errors, pc, result>>

\* Some(tok), and parse_statement returns Err(error).
StatementErr ==
    /\ pc = "loop"
    /\ Peek(iter) \notin {"Semicolon", None}
    /\ LET r == call("parse_statement", <<iter, Peek(iter)>>)
       IN  /\ ~r.ok
           /\ errors' = Append(errors, r.val)
           /\ iter' = r.p
    /\ UNCHANGED <<program, pc, result>>

\* None: leave the loop and return.
Finish ==
    /\ pc = "loop"
    /\ Peek(iter) = None
    /\ result' = parse_program_result(program, errors)
    /\ pc' = "done"
    /\ UNCHANGED <<iter, program, errors>>

Next == SkipSemicolon \/ StatementOk \/ StatementErr \/ Finish

Spec == Init /\ [][Next]_vars

(* ------------------------------ helpers ------------------------------- *)

Done == pc = "done"

OkResult(prog) == [tag |-> "Ok", val |-> prog]

ErrResult(errs) == [tag |-> "Err", val |-> errs]

IsPrefixOf(s, t) == Len(s) <= Len(t) /\ SubSeq(t, 1, Len(s)) = s

(* -------------------------------- C2 ---------------------------------- *)

\* C2: when parse_program has returned, the result is Err(errors) exactly when
\* a statement parse failed (errors holds one entry per failed statement), the
\* list is then non-empty and is the errors in the order recorded; otherwise it
\* is Ok(program), the statements in the order parsed.  An input with no token
\* or with terminators only returns Ok of the empty program.  While it runs,
\* a failed statement appends its error to errors and leaves program alone,
\* and a parsed statement appends to program and leaves errors alone.
C2_ResultShape ==
    /\ [](Done =>
            /\ (result.tag = "Err") = (Len(errors) > 0)
            /\ result.tag \in {"Ok", "Err"}
            /\ result.tag = "Err" => result.val = errors /\ result.val # <<>>
            /\ result.tag = "Ok" => result.val = program
            /\ (\A i \in 1..Len(iter.toks) : iter.toks[i] = "Semicolon")
                  => result = OkResult(<<>>))
    /\ [][/\ IsPrefixOf(errors, errors') /\ IsPrefixOf(program, program')
          /\ Len(errors') + Len(program') <= Len(errors) + Len(program) + 1
          /\ ~Done => result = NoResult]_vars

\* A run that parsed one statement, recorded two errors and returned Err.
C2_Witness ==
    /\ Done
    /\ result.tag = "Err"
    /\ Len(result.val) = 2
    /\ Len(program) = 1

(* -------------------------------- C3 ---------------------------------- *)

\* The grouping the precedence order prescribes, computed without the parser:
\* split the chain at its last operator of the lowest level.
RefLevel(op) ==
    CASE op \in {"Eq", "Noteq"} -> 1
      [] op \in {"Lt", "Gt"} -> 2
      [] op \in {"Plus", "Minus"} -> 3
      [] op \in {"Asterisk", "Slash"} -> 4

RECURSIVE RefGroup(_, _)
RefGroup(xs, ops) ==
    IF Len(ops) = 0 THEN xs[1]
    ELSE LET k == CHOOSE j \in 1..Len(ops) :
                    /\ \A i \in 1..Len(ops) : RefLevel(ops[i]) >= RefLevel(ops[j])
                    /\ \A i \in (j + 1)..Len(ops) : RefLevel(ops[i]) > RefLevel(ops[j])
         IN  ExprInfix(RefGroup(SubSeq(xs, 1, k), SubSeq(ops, 1, k - 1)),
                       InfixOf(ops[k]),
                       RefGroup(SubSeq(xs, k + 1, Len(xs)), SubSeq(ops, k + 1, Len(ops))))

\* An operand with its prefix operators and call parentheses: the call binds
\* first, then the prefix operators from the innermost out.
RefOperand(x, form) ==
    LET id == ExprIdentifier(x)
        sum == ExprInfix(ExprInteger(1), "Plus", ExprInteger(2))
    IN  CASE form = "plain" -> id
          [] form = "neg" -> ExprPrefix("Minus", id)
          [] form = "not" -> ExprPrefix("Bang", id)
          [] form = "notneg" -> ExprPrefix("Bang", ExprPrefix("Minus", id))
          [] form = "call0" -> ExprCall(id, <<>>)
          [] form = "call1" -> ExprCall(id, <<sum>>)
          [] form = "negcall" -> ExprPrefix("Minus", ExprCall(id, <<>>))

ChainTreeOf(c) ==
    RefGroup([i \in 1..(Len(c.ops) + 1) |-> RefOperand(ChainOperands[i], ChainForm(c, i))],
             c.ops)

\* Each chain with the tree the reference gives it (a chain has one tree: the
\* token sequences of two different chains differ).
ChainTable == {<<ChainTokensOf(c), ChainTreeOf(c)>> : c \in {d \in ChainSpecs : ChainOk(d)}}

\* C3: a chain of operands joined by infix operators (one operand possibly with
\* prefix operators or call parentheses) parses to the single expression
\* statement whose tree groups by the precedence order, left-associatively.
C3_PrecedenceGrouping ==
    (Done /\ iter.toks \in ChainInputs) =>
        /\ result.tag = "Ok"
        /\ Len(result.val) = 1
        /\ result.val[1].node = "Expression"
        /\ <<iter.toks, result.val[1].expression>> \in ChainTable

\* a - b * c == d parsed: the product groups first, then the difference.
C3_Witness ==
    /\ Done
    /\ iter.toks = <<"a", "Minus", "b", "Asterisk", "c", "Eq", "d">>
    /\ result.tag = "Ok"
    /\ result.val[1].expression.op = "Equal"
    /\ result.val[1].expression.left.op = "Minus"
    /\ result.val[1].expression.left.right.op = "Multiply"

(* -------------------------------- C1 ---------------------------------- *)

\* The error a statement gives when it is the whole input.
StmtError(toks) ==
    call("parse_statement", <<NewParser(Append(toks, "Semicolon")), toks[1]>>).val

Malformed(c) == {i \in 1..Len(c) : Catalog[c[i]].malformed}

\* C1: an input of terminator-separated statements of which exactly two are
\* malformed returns Err with exactly two errors, the error of the first
\* malformed statement and then the error of the second, also when a
\* malformed statement sits inside a block that holds terminators.
C1_TwoErrors ==
    (Done /\ iter.toks \in CatalogInputs) =>
        \A c \in CatalogSpecs :
            (CatalogTokensOf(c) = iter.toks /\ Cardinality(Malformed(c)) = 2) =>
                LET i == CHOOSE x \in Malformed(c) : \A y \in Malformed(c) : x <= y
                    j == CHOOSE x \in Malformed(c) : \A y \in Malformed(c) : x >= y
                IN  result = ErrResult(<<StmtError(Catalog[c[i]].toks),
                                         StmtError(Catalog[c[j]].toks)>>)

(* -------------------------------- C4 ---------------------------------- *)

\* A parameter list as the claim describes it: empty, or identifiers separated
\* by single commas.
ValidParams(ps) ==
    \/ Len(ps) = 0
    \/ /\ Len(ps) % 2 = 1
       /\ \A i \in 1..Len(ps) :
            IF i % 2 = 1 THEN ps[i] \in Identifiers ELSE ps[i] = "Comma"

ParamIds(ps) == [i \in 1..((Len(ps) + 1) \div 2) |-> ExprIdentifier(ps[2 * i - 1])]

IsBlock(b) == b \in {<<"Lbrace", "Rbrace">>, <<"Lbrace", "a", "Rbrace">>}

BodyBlock(b) ==
    IF b = <<"Lbrace", "Rbrace">> THEN BlockStatement(<<>>)
    ELSE BlockStatement(<<StmtExpression(ExprIdentifier("a"))>>)

\* C4: fn ( params ) body parses to Function(params, body) exactly when params
\* is empty or identifiers separated by single commas and body is a block;
\* otherwise (a trailing comma, a parameter that is no identifier, no block)
\* the statement is rejected with an error.
C4_FunctionParameters ==
    (Done /\ iter.toks \in FnInputs) =>
        \A c \in FnSpecs :
            FnTokensOf(c) = iter.toks =>
                IF ValidParams(c.params) /\ IsBlock(c.body)
                THEN result = OkResult(<<StmtExpression(
                                 ExprFunction(ParamIds(c.params), BodyBlock(c.body)))>>)
                ELSE result.tag = "Err"

(* -------------------------------- C5 ---------------------------------- *)

GroupTree(chain) ==
    IF Len(chain) = 1 THEN ExprIdentifier(chain[1])
    ELSE ExprInfix(ExprIdentifier(chain[1]), InfixOf(chain[2]), ExprIdentifier(chain[3]))

\* C5: ( inner ) is the inner expression, used as one operand by an operator
\* that follows; ( inner T with T another token fails with UnexpectedToken(T);
\* ( inner at the end of the input fails with UnexpectedEof.
C5_Grouping ==
    (Done /\ iter.toks \in GroupInputs) =>
        \A c \in GroupSpecs :
            GroupTokensOf(c) = iter.toks =>
                LET inner == GroupTree(c.chain)
                IN  CASE c.tail = <<>> -> result = ErrResult(<<UnexpectedEof>>)
                      [] c.tail = <<"Rparen">> ->
                           result = OkResult(<<StmtExpression(inner)>>)
                      [] Len(c.tail) = 3 ->
                           result = OkResult(<<StmtExpression(
                               ExprInfix(inner, InfixOf(c.tail[2]), ExprIdentifier("c")))>>)
                      [] OTHER -> result = ErrResult(<<UnexpectedToken(c.tail[1])>>)

(* -------------------------------- C6 ---------------------------------- *)

\* C6: for an input let <identifier> T ... with T not '=', the error recorded
\* for that statement is UnexpectedToken(T), whatever T is.
C6_LetMissingAssign ==
    (/\ Done
     /\ Len(iter.toks) >= 3
     /\ iter.toks[1] = "Let"
     /\ iter.toks[2] \in Identifiers
     /\ iter.toks[3] # "Assign") =>
        /\ Len(errors) >= 1
        /\ errors[1] = UnexpectedToken(iter.toks[3])

(* -------------------------------- C7 ---------------------------------- *)

PrefixProgram(pre) ==
    CASE pre = <<>> -> <<>>
      [] pre = <<"a", "Semicolon">> -> <<StmtExpression(ExprIdentifier("a"))>>
      [] OTHER -> <<StmtLet(ExprIdentifier("a"), ExprInteger(1)),
                    StmtExpression(ExprIdentifier("b"))>>

\* C8: when the input ends inside a block whose statements so far parsed, the
\* statement holding the block (an if, a function literal, a let or return of
\* one, a block nested in another) gives the error UnexpectedEof and no
\* statement: the program holds the statements before it only.
C8_UnterminatedBlock ==
    (Done /\ iter.toks \in UnterminatedInputs) =>
        \A c \in UnterminatedSpecs :
            UnterminatedTokensOf(c) = iter.toks =>
                /\ result = ErrResult(<<UnexpectedEof>>)
                /\ program = PrefixProgram(c.prefix)

C8_Witness ==
    /\ Done
    /\ iter.toks = <<"a", "Semicolon", "Function", "Lparen", "a", "Rparen", "Lbrace",
                     "b", "Semicolon", "Return", "c", "Semicolon">>
    /\ errors = <<UnexpectedEof>>
    /\ Len(program) = 1
    /\ [at |-> 9, by |-> "parse_block_statement"] \in iter.semis

(* -------------------------------- C9 ---------------------------------- *)

\* C9: a statement terminator is consumed only by the statement loops of
\* parse_program and parse_block_statement; and when parse_statement returns
\* an error to parse_program the cursor is at a terminator or at the end of
\* the input, the only terminators before it being those a block loop took.
C9_Resynchronization ==
    /\ [](\A e \in iter.semis : e.by \in {"parse_program", "parse_block_statement"})
    /\ [][errors' # errors =>
            /\ Peek(iter') \in {"Semicolon", None}
            /\ \A i \in iter.pos..(iter'.pos - 1) :
                 iter.toks[i] = "Semicolon" =>
                    [at |-> i, by |-> "parse_block_statement"] \in iter'.semis]_vars

\* A failed statement was skipped up to a terminator, which is still there.
C9_Witness ==
    /\ pc = "loop"
    /\ Len(errors) = 1
    /\ Peek(iter) = "Semicolon"
    /\ iter.pos = 4
    /\ iter.toks[1] = "Let"

(* -------------------------------- C10 --------------------------------- *)

\* C10: no error parse_program records is Generic.
C10_NoGeneric == \A i \in 1..Len(errors) : errors[i].err # "Generic"

\* Prefix and infix expressions were parsed and an error recorded.
C10_Witness ==
    /\ Done
    /\ iter.toks = <<"Minus", "a", "Plus">>
    /\ errors = <<UnexpectedEof>>

====
